---- MODULE Spec2Model ----
(***************************************************************************)
(* A model of the AntPlan heuristic evaluator                              *)
(* (src/search/heuristics/antplan_heuristic.cc): the process-wide Oracle   *)
(* binding, the string tables, the memoization cache keyed by the FNV-1a   *)
(* fingerprint of a state, the lookahead probe and compute_heuristic.      *)
(***************************************************************************)
EXTENDS Integers, Sequences, FiniteSets, TLC

(***************************************************************************)
(* Bounds of the model.                                                    *)
(***************************************************************************)
\* evaluation_count is capped here; the probe first fires at the 5th call.
MaxEvals == 5
\* number of evaluator constructions (calls of _parse) in one run
MaxConstructions == 2

(***************************************************************************)
(* 64-bit unsigned arithmetic (uint64_t), as 8 little-endian bytes.        *)
(***************************************************************************)
Bytes == 1..8

RECURSIVE XorBits(_, _, _)
XorBits(a, b, n) ==
  IF n = 0 THEN 0
  ELSE (((a % 2) + (b % 2)) % 2) + 2 * XorBits(a \div 2, b \div 2, n - 1)

\* the carry into byte i when the column sums cols are normalised to bytes
RECURSIVE CarryInto(_, _)
CarryInto(cols, i) ==
  IF i = 1 THEN 0 ELSE (cols[i - 1] + CarryInto(cols, i - 1)) \div 256

\* column sums reduced modulo 2^64
U64Wrap(cols) == [i \in Bytes |-> (cols[i] + CarryInto(cols, i)) % 256]

U64FromNat(n) == U64Wrap([i \in Bytes |-> IF i = 1 THEN n ELSE 0])

U64Xor(x, y) == [i \in Bytes |-> XorBits(x[i], y[i], 8)]

U64Add(x, y) == U64Wrap([i \in Bytes |-> x[i] + y[i]])

RECURSIVE ColumnSum(_, _, _, _)
ColumnSum(x, y, k, i) ==
  IF i > k THEN 0 ELSE x[i] * y[k + 1 - i] + ColumnSum(x, y, k, i + 1)

U64Mul(x, y) == U64Wrap([k \in Bytes |-> ColumnSum(x, y, k, 1)])

\* 1099511628211 = 0x00000100000001B3
FnvPrime == <<179, 1, 0, 0, 0, 1, 0, 0>>
\* the source's literal 1469598103934665603 = 0x14650FB0739D0383
FnvOffsetBasis == <<131, 3, 157, 115, 176, 15, 101, 20>>
\* 0x9e3779b97f4a7c15
GoldenRatio == <<21, 124, 74, 127, 185, 121, 55, 158>>

fnv1a_64_update(h, x) == U64Mul(U64Xor(h, x), FnvPrime)

\* the loop of hash_state_values from var_id (0-based) on; values[var_id + 1]
\* is the value state[var_id] holds
RECURSIVE HashFrom(_, _, _)
HashFrom(h, values, var_id) ==
  IF var_id >= Len(values) THEN h
  ELSE HashFrom(
         fnv1a_64_update(h,
           U64Add(U64Add(U64FromNat(values[var_id + 1]), GoldenRatio),
                  U64FromNat(2 * var_id))),
         values, var_id + 1)

hash_state_values(values) == HashFrom(FnvOffsetBasis, values, 0)

(***************************************************************************)
(* The planning tasks an evaluator is built over (its task_proxy).  Both   *)
(* have two binary variables, so a state is a pair of values and the       *)
(* string tables of one task can be indexed with a state of the other.     *)
(* Task 1 is the two-action scenario; task 2 has dead ends and several     *)
(* applicable operators per state.                                         *)
(***************************************************************************)
Tasks == {1, 2}

States == {<<0, 0>>, <<1, 0>>, <<0, 1>>, <<1, 1>>}

\* VariableProxy::get_name, by 0-based var_id
VarName(task, var_id) ==
  IF task = 1 THEN <<"A", "B">>[var_id + 1] ELSE <<"X", "Y">>[var_id + 1]

\* FactProxy::get_name
FactName(task, var_id, val) ==
  IF task = 1
  THEN <<<<"A=0", "A=1">>, <<"B=0", "B=1">>>>[var_id + 1][val + 1]
  ELSE <<<<"X=0", "X=1">>, <<"Y=0", "Y=1">>>>[var_id + 1][val + 1]

\* a fact is <<var_id, value>>
Op(name, pre, eff) == [name |-> name, pre |-> pre, eff |-> eff]

\* the operators of the tasks, in operator-id order
TaskOperators ==
  [task \in Tasks |->
  IF task = 1
  THEN << Op("set_A", {<<0, 0>>}, {<<0, 1>>}),
          Op("set_B", {<<0, 1>>}, {<<1, 1>>}) >>
  ELSE << Op("inc_X", {<<0, 0>>}, {<<0, 1>>}),
          Op("inc_Y", {<<1, 0>>}, {<<1, 1>>}),
          Op("dec_X", {<<0, 1>>}, {<<0, 0>>}),
          Op("force_Y", {}, {<<1, 1>>}),
          Op("both", {<<0, 0>>}, {<<0, 1>>, <<1, 1>>}) >>]

\* task_proxy.get_operators()
Operators(task) == TaskOperators[task]

Goal(task) == IF task = 1 THEN {<<1, 1>>} ELSE {<<0, 1>>, <<1, 0>>}

OpIds(task) == 1..Len(Operators(task))

\* task_properties::is_applicable
is_applicable(task, op_id, state) ==
  \A f \in Operators(task)[op_id].pre : state[f[1] + 1] = f[2]

\* State::get_unregistered_successor
get_unregistered_successor(task, op_id, state) ==
  [i \in 1..Len(state) |->
     IF \E f \in Operators(task)[op_id].eff : f[1] + 1 = i
     THEN (CHOOSE f \in Operators(task)[op_id].eff : f[1] + 1 = i)[2]
     ELSE state[i]]

(***************************************************************************)
(* The Oracle.  A Python function maps a snapshot (variable name -> fact   *)
(* name) to a double or raises.  A double is                               *)
(*   [kind |-> "num", wraps |-> k, twice |-> t]   the value k*2^32 + t/2,  *)
(*   [kind |-> "nan"], [kind |-> "posinf"], [kind |-> "neginf"];           *)
(* a call that raises is [kind |-> "fault"].                               *)
(***************************************************************************)
Num(t) == [kind |-> "num", wraps |-> 0, twice |-> t]
Huge(k, t) == [kind |-> "num", wraps |-> k, twice |-> t]
NaN == [kind |-> "nan"]
PosInf == [kind |-> "posinf"]
NegInf == [kind |-> "neginf"]
Fault == [kind |-> "fault"]

\* the module of the default configuration and the functions it defines
DefaultModule == "antplan.scripts.eval_antplan_gripper"
ModuleFunctions(mod_name) ==
  IF mod_name = DefaultModule THEN {"anticipatory_cost_fn", "const_five"} ELSE {}

\* what calling function fn on snapshot d gives: "const_five" always returns
\* 5; "anticipatory_cost_fn" scores by the fact names it is shown
PyCall(fn, d) ==
  IF fn = "const_five" THEN Num(10)
  ELSE CASE d = [A |-> "A=0", B |-> "B=0"] -> Num(16)
         [] d = [A |-> "A=1", B |-> "B=0"] -> Num(7)
         [] d = [A |-> "A=1", B |-> "B=1"] -> Num(-7)
         [] d = [A |-> "A=0", B |-> "B=1"] -> NaN
         [] d = [X |-> "X=0", Y |-> "Y=0"] -> Fault
         [] d = [X |-> "X=1", Y |-> "Y=0"] -> PosInf
         [] d = [X |-> "X=0", Y |-> "Y=1"] -> Huge(-1, -7)
         [] d = [X |-> "X=1", Y |-> "Y=1"] -> Num(-7)
         [] OTHER -> Fault

(***************************************************************************)
(* Numeric conversions of the Oracle's double.                             *)
(***************************************************************************)
IntMin == -2147483647 - 1

\* std::lround of a finite double: halves round away from zero; the result
\* is the long wraps*2^32 + low
lround(x) ==
  [wraps |-> x.wraps,
   low |-> IF x.twice % 2 = 0 THEN x.twice \div 2
           ELSE IF x.wraps > 0 \/ (x.wraps = 0 /\ x.twice > 0)
           THEN (x.twice + 1) \div 2
           ELSE (x.twice - 1) \div 2]

\* static_cast<int> of a long keeps its low 32 bits
CastLongToInt(l) == l.low

\* leaves a negative rounded score as it is (no clamp at 0)
NormalizeNoClamp(res) ==
  IF res.kind \in {"nan", "posinf", "neginf"} THEN 0
  ELSE CastLongToInt(lround(res))

\* lines 376-381: a non-finite score becomes 0, a finite one is rounded,
\* cast to int and clamped at 0
NormalizeScore(res) ==
  IF res.kind \in {"nan", "posinf", "neginf"} THEN 0
  ELSE LET i == CastLongToInt(lround(res)) IN IF i < 0 THEN 0 ELSE i

\* whether the double of the score fits an int after truncation
FitsInt(x) == x.kind = "num" /\ x.wraps = 0

\* static_cast<int> of a double that fits: truncation toward zero
TruncToInt(x) ==
  IF x.twice >= 0 THEN x.twice \div 2 ELSE -((-x.twice) \div 2)

\* the values static_cast<int> may give for a double that does not fit
\* (undefined behaviour): the x86 "integer indefinite" value, or 0
UBCastResults == {IntMin, 0}

\* succ_cost < current_cost * improvement_threshold, the threshold being
\* the fraction thr.num / thr.den (dyadic, so the double product is exact)
ScoreImproves(x, current_cost, thr) ==
  CASE x.kind = "nan" -> FALSE
    [] x.kind = "posinf" -> FALSE
    [] x.kind = "neginf" -> TRUE
    [] OTHER -> IF x.wraps > 0 THEN FALSE
                ELSE IF x.wraps < 0 THEN TRUE
                ELSE current_cost > (x.twice * thr.den) \div (2 * thr.num)

\* a.second < b.second on the doubles the probe retains (never NaN)
ScoreLess(a, b) ==
  CASE a.kind = "neginf" -> b.kind # "neginf"
    [] b.kind = "neginf" -> FALSE
    [] a.kind = "posinf" -> FALSE
    [] b.kind = "posinf" -> TRUE
    [] OTHER -> \/ a.wraps < b.wraps
                \/ a.wraps = b.wraps /\ a.twice < b.twice

(***************************************************************************)
(* The string tables and the snapshot handed to the Oracle.                *)
(***************************************************************************)
NumVars(task) == 2

\* what ensure_py_tables_ready builds for a task (lines 85-101)
BuildVarNames(task) == [i \in 1..NumVars(task) |-> VarName(task, i - 1)]
BuildFactNames(task) ==
  [i \in 1..NumVars(task) |-> [v \in 1..2 |-> FactName(task, i - 1, v - 1)]]

\* the py::dict filled by d[var_names[var_id]] = fact_names[var_id][value]
\* for var_id = 0 .. num_vars-1: a later variable of the same name overwrites
Snapshot(var_names, fact_names, state) ==
  [n \in {var_names[i] : i \in 1..Len(state)} |->
     LET last == CHOOSE i \in 1..Len(state) :
                   /\ var_names[i] = n
                   /\ \A j \in 1..Len(state) : var_names[j] = n => j <= i
     IN fact_names[last][state[last] + 1]]

\* the fingerprints of the states, computed once
StateHash == [s \in States |-> hash_state_values(s)]

(***************************************************************************)
(* The lookahead probe.  ctx holds what a probe reads and never writes:    *)
(*   task, fn (py_cost_fn), var_names, fact_names (the string tables),     *)
(*   thr (improvement_threshold), ub (the int an undefined cast gives),    *)
(*   tie (how std::sort orders equal scores), held (the holds of the       *)
(*   interpreter lock as the probe starts).                                *)
(* ps is what it reads and writes: budget, explored (explored_states),     *)
(* preferred (set_preferred calls), threw (an exception is unwinding),     *)
(* scored (the successor states handed to the Oracle, in order),           *)
(* expanded (the <<state, depth>> pairs past the visited check), ub_cast   *)
(* (an out-of-range cast was made), tied (a sort met equal scores), gil     *)
(* (the holds of the interpreter lock), oracle_held (the holds at each     *)
(* call of py_cost_fn the probe made) and                                  *)
(* calls (one record per call of probe_successors, in call order: its      *)
(* arguments, the budget it found, what it did, and for a call that got    *)
(* to line 296 the sorted candidates and the operators it marked).         *)
(***************************************************************************)
ExploredStatesLimit == 10000
TopPreferred == 3
TopRecursed == 2
TieOrders == {"first", "last"}

Min(a, b) == IF a < b THEN a ELSE b

\* lines 241-249
should_explore_now(count, frequency) ==
  IF count < 100 THEN count % 5 = 0
  ELSE IF count < 500 THEN count % frequency = 0
  ELSE count % (frequency * 2) = 0

\* py::gil_scoped_acquire (lines 83, 172, 252, 279, 363).  held is the number
\* of live guards of the calling thread, which holds the interpreter lock
\* while that number is above 0: the constructor adds a hold, and the
\* destructor, run when the guard's scope is left by a return or by an
\* exception, gives it back.
gil_scoped_acquire(held) == held + 1

KeepsHold(held) == held

gil_scope_exit(held) == held - 1

\* lines 363-373: the holds at the Oracle's call in compute_heuristic; the
\* guard of ensure_py_tables_ready (line 83) has come and gone by then
HeldAtOracle(held, tables_ready) ==
  IF tables_ready THEN gil_scoped_acquire(held)
  ELSE gil_scope_exit(gil_scoped_acquire(gil_scoped_acquire(held)))

\* lines 362-395: the holds once the try block is left, by its end or by
\* an exception into the handler
HeldAfterTry(held, tables_ready) ==
  gil_scope_exit(HeldAtOracle(held, tables_ready))

\* lines 251-264: the Oracle's answer for a state, from the string tables
evaluate_state_with_nn(ctx, state) ==
  PyCall(ctx.fn, Snapshot(ctx.var_names, ctx.fact_names, state))

SpendNothing(budget) == budget

\* --budget, line 285
Spend(budget) == budget - 1

\* lines 285-292 for one applicable operator: the budget is spent, the
\* successor succ scored (succ_cost) and kept when it improves
ScoreSuccessor(acc, op_id, succ, succ_cost, current_cost, thr) ==
  [budget |-> Spend(acc.budget),
   scored |-> Append(acc.scored, succ),
   oracle_held |-> Append(acc.oracle_held, gil_scoped_acquire(acc.gil)),
   gil |-> gil_scope_exit(gil_scoped_acquire(acc.gil)),
   threw |-> succ_cost.kind = "fault",
   promising |->
     IF succ_cost.kind # "fault" /\ ScoreImproves(succ_cost, current_cost, thr)
     THEN Append(acc.promising, [op |-> op_id, cost |-> succ_cost])
     ELSE acc.promising]

\* lines 283-293: the loop over the operators, from op_id on.  acc holds
\* budget, promising (the retained <<op, cost>> pairs), threw, scored, gil
\* (the holds of the interpreter lock) and oracle_held (the holds at each
\* call of py_cost_fn by evaluate_state_with_nn, line 262).
RECURSIVE ScanOps(_, _, _, _, _)
ScanOps(ctx, state, current_cost, op_id, acc) ==
  IF acc.threw \/ op_id > Len(Operators(ctx.task)) THEN acc
  ELSE IF ~is_applicable(ctx.task, op_id, state)
  THEN ScanOps(ctx, state, current_cost, op_id + 1, acc)
  ELSE IF Spend(acc.budget) < 0 THEN [acc EXCEPT !.budget = Spend(acc.budget)]
  ELSE ScanOps(ctx, state, current_cost, op_id + 1,
         ScoreSuccessor(acc, op_id,
           get_unregistered_successor(ctx.task, op_id, state),
           evaluate_state_with_nn(ctx,
             get_unregistered_successor(ctx.task, op_id, state)),
           current_cost, ctx.thr))

\* lines 296-300: std::sort by cost; equal costs come in either order
SortedBefore(a, b, tie) ==
  \/ ScoreLess(a.cost, b.cost)
  \/ /\ ~ScoreLess(b.cost, a.cost)
     /\ IF tie = "first" THEN a.op < b.op ELSE a.op > b.op

KeepOrder(promising, tie) == promising

SortByCost(promising, tie) ==
  [i \in 1..Len(promising) |->
     CHOOSE c \in {promising[j] : j \in 1..Len(promising)} :
       Cardinality({k \in 1..Len(promising) :
                      SortedBefore(promising[k], c, tie)}) = i - 1]

RECURSIVE probe_successors(_, _, _, _, _)
RECURSIVE Descend(_, _, _, _, _, _)

\* the record of a call of probe_successors(state, current_cost, depth)
\* that found the budget at `budget`: did is "stop" (line 267), "skip"
\* (line 271) or "expand"; left is the budget after the call's own loop
\* over the operators
Call(state, current_cost, depth, budget, did) ==
  [state |-> state, cost |-> current_cost, depth |-> depth,
   budget |-> budget, left |-> budget, did |-> did, reached_sort |-> FALSE,
   retained |-> << >>, marked |-> {}]

\* static_cast<int>(promising_ops[i].second), line 316
CastCostToInt(cost, ub) == IF FitsInt(cost) THEN TruncToInt(cost) ELSE ub

\* lines 312-317: the recursion into the first candidates, from index i on
Descend(ctx, ps, state, depth, sorted, i) ==
  IF i > Min(TopRecursed, Len(sorted)) \/ ps.threw \/ ps.budget <= 0 THEN ps
  ELSE Descend(ctx,
         probe_successors(ctx,
           [ps EXCEPT !.ub_cast = @ \/ ~FitsInt(sorted[i].cost)],
           get_unregistered_successor(ctx.task, sorted[i].op, state),
           CastCostToInt(sorted[i].cost, ctx.ub), depth - 1),
         state, depth, sorted, i + 1)

\* lines 302-317: the first candidates are marked preferred, then expanded
MarkAndDescend(ctx, entered, state, depth, sorted) ==
  Descend(ctx,
    [entered EXCEPT
       !.preferred =
         @ \cup {sorted[i].op : i \in 1..Min(TopPreferred, Len(sorted))},
       !.calls[Len(entered.calls)] =
         [@ EXCEPT !.reached_sort = TRUE,
                   !.retained = sorted,
                   !.marked = {sorted[i].op :
                                 i \in 1..Min(TopPreferred, Len(sorted))}],
       !.tied = @ \/ \E i \in 1..(Len(sorted) - 1) :
                       ~ScoreLess(sorted[i].cost, sorted[i + 1].cost)],
    state, depth, sorted, 1)

\* the end of probe_successors' body (line 318), or an exception passing
\* through it: the guard of line 279 goes out of scope
LeaveScope(ps) == [ps EXCEPT !.gil = gil_scope_exit(@)]

\* lines 272-277: the state is recorded as visited; the set is cleared once
\* it has grown past the limit
InsertExplored(explored, h) ==
  IF Cardinality(explored \cup {h}) > ExploredStatesLimit THEN {}
  ELSE explored \cup {h}

\* lines 272-317, given what the loop over the operators (scan) found
AfterScan(ctx, ps, state, current_cost, depth, scan) ==
  IF scan.threw
  THEN [ps EXCEPT !.explored = InsertExplored(@, StateHash[state]),
                  !.budget = scan.budget,
                  !.scored = scan.scored,
                  !.expanded = Append(@, <<state, depth>>),
                  !.calls = Append(@, [Call(state, current_cost, depth,
                                            ps.budget, "expand")
                                         EXCEPT !.left = scan.budget]),
                  !.oracle_held = scan.oracle_held,
                  !.gil = gil_scope_exit(scan.gil),
                  !.threw = TRUE]
  ELSE LeaveScope(MarkAndDescend(ctx,
         [ps EXCEPT !.explored = InsertExplored(@, StateHash[state]),
                    !.budget = scan.budget,
                    !.scored = scan.scored,
                    !.expanded = Append(@, <<state, depth>>),
                    !.calls = Append(@, [Call(state, current_cost, depth,
                                              ps.budget, "expand")
                                           EXCEPT !.left = scan.budget]),
                    !.oracle_held = scan.oracle_held,
                    !.gil = scan.gil],
         state, depth, SortByCost(scan.promising, ctx.tie)))

\* lines 266-318
probe_successors(ctx, ps, state, current_cost, depth) ==
  IF depth = 0 \/ ps.budget <= 0
  THEN [ps EXCEPT !.calls = Append(@, Call(state, current_cost, depth,
                                           ps.budget, "stop"))]
  ELSE IF StateHash[state] \in ps.explored
  THEN [ps EXCEPT !.calls = Append(@, Call(state, current_cost, depth,
                                           ps.budget, "skip"))]
  ELSE AfterScan(ctx, ps, state, current_cost, depth,
         ScanOps(ctx, state, current_cost, 1,
           [budget |-> ps.budget, promising |-> << >>,
            threw |-> FALSE, scored |-> ps.scored,
            oracle_held |-> ps.oracle_held,
            gil |-> gil_scoped_acquire(ps.gil)]))

\* lines 320-337, but for the exploration counter
explore_from_state(ctx, explored, state, current_cost, depth, budget) ==
  probe_successors(ctx,
    [budget |-> budget, explored |-> explored, preferred |-> {},
     threw |-> FALSE, scored |-> <<>>, expanded |-> <<>>,
     ub_cast |-> FALSE, tied |-> FALSE, calls |-> << >>,
     oracle_held |-> << >>, gil |-> ctx.held],
    state, current_cost, depth)

(***************************************************************************)
(* The state of the process.                                               *)
(***************************************************************************)
VARIABLES
  py_cost_fn,          \* the bound Python function, "none" before any binding
  py_ready,
  py_func_name,
  py_module_name,
  evaluation_count,
  exploration_count,
  explored_states,
  g_py_tables_ready,
  g_py_var_names,
  g_py_fact_names,
  g_use_cache,
  g_cache_max_entries,
  g_cache,             \* fingerprint -> cached value
  g_calls,
  g_cache_hits,
  g_cache_misses,
  evaluators,          \* the AntPlanHeuristic instances constructed so far
  constructions,       \* how many times _parse has run
  gil_held,            \* the live py::gil_scoped_acquire guards of the
                       \* search thread
  result,              \* what the last call did and gave back to its caller
  trail                \* the states of the last two calls of
                       \* compute_heuristic since the last construction,
                       \* newest last

vars == << py_cost_fn, py_ready, py_func_name, py_module_name,
           evaluation_count, exploration_count, explored_states,
           g_py_tables_ready, g_py_var_names, g_py_fact_names,
           g_use_cache, g_cache_max_entries, g_cache,
           g_calls, g_cache_hits, g_cache_misses,
           evaluators, constructions, gil_held, result, trail >>

EmptyCache == [k \in {} |-> 0]

\* g_cache[key] = value
CachePut(cache, key, value) ==
  [k \in (DOMAIN cache) \cup {key} |-> IF k = key THEN value ELSE cache[k]]

\* lines 73-77
maybe_evict_cache(use_cache, max_entries, cache) ==
  IF ~use_cache THEN cache
  ELSE IF Cardinality(DOMAIN cache) <= max_entries THEN cache
  ELSE EmptyCache

\* lines 27-53: the statics as the program starts
Init ==
  /\ py_cost_fn = "none"
  /\ py_ready = FALSE
  /\ py_func_name = "anticipatory_cost_fn"
  /\ py_module_name = DefaultModule
  /\ evaluation_count = 0
  /\ exploration_count = 0
  /\ explored_states = {}
  /\ g_py_tables_ready = FALSE
  /\ g_py_var_names = <<>>
  /\ g_py_fact_names = <<>>
  /\ g_use_cache = TRUE
  /\ g_cache_max_entries = 500000
  /\ g_cache = EmptyCache
  /\ g_calls = 0
  /\ g_cache_hits = 0
  /\ g_cache_misses = 0
  /\ evaluators = {}
  /\ constructions = 0
  /\ gil_held = 0
  /\ result = [op |-> "none"]
  /\ trail = << >>

(***************************************************************************)
(* The configurations _parse is run with.                                  *)
(***************************************************************************)
Config(function, task, cache, cache_max_entries, depth, budget) ==
  [function |-> function, module |-> DefaultModule, task |-> task,
   cache |-> cache, cache_max_entries |-> cache_max_entries,
   exploration_frequency |-> 10, exploration_depth |-> depth,
   improvement_threshold |-> [num |-> 3, den |-> 4],
   exploration_budget |-> budget]

Configs ==
  { Config("anticipatory_cost_fn", 1, TRUE, 1, 2, 20),
    Config("const_five", 1, TRUE, 1, 2, 20),
    Config("anticipatory_cost_fn", 2, FALSE, 2, 2, 5),
    Config("missing_fn", 1, TRUE, 1, 2, 20) }

\* the fields of an instance (the rest of a configuration is process-wide)
Instance(cfg) ==
  [task |-> cfg.task,
   exploration_frequency |-> cfg.exploration_frequency,
   exploration_depth |-> cfg.exploration_depth,
   improvement_threshold |-> cfg.improvement_threshold,
   exploration_budget |-> cfg.exploration_budget]

\* lines 164-209: whether the import and the attribute lookup succeed
PythonInitSucceeds(mod_name, func_name) ==
  mod_name # "" /\ func_name \in ModuleFunctions(mod_name)

\* _parse (lines 475-484) and the constructor (lines 119-150)
Construct(cfg) ==
  /\ constructions < MaxConstructions
  /\ constructions' = constructions + 1
  /\ g_use_cache' = cfg.cache
  /\ g_cache_max_entries' = IF cfg.cache_max_entries < 0 THEN 0
                            ELSE cfg.cache_max_entries
  /\ py_func_name' = cfg.function
  /\ py_module_name' = cfg.module
  /\ IF PythonInitSucceeds(cfg.module, cfg.function)
     THEN /\ py_cost_fn' = cfg.function
          /\ py_ready' = TRUE
          /\ IF g_py_tables_ready
             THEN UNCHANGED << g_py_var_names, g_py_fact_names >>
             ELSE /\ g_py_var_names' = BuildVarNames(cfg.task)
                  /\ g_py_fact_names' = BuildFactNames(cfg.task)
          /\ g_py_tables_ready' = TRUE
          /\ evaluators' = evaluators \cup {Instance(cfg)}
          /\ result' = [op |-> "construct", outcome |-> "ok"]
     ELSE /\ py_ready' = FALSE
          /\ UNCHANGED << py_cost_fn, g_py_tables_ready, g_py_var_names,
                          g_py_fact_names, evaluators >>
          /\ result' = [op |-> "construct", outcome |-> "throw"]
  /\ trail' = << >>
  /\ gil_held' = gil_scope_exit(gil_scoped_acquire(gil_held))
  /\ UNCHANGED << evaluation_count, exploration_count, explored_states,
                  g_cache, g_calls, g_cache_hits, g_cache_misses >>

(***************************************************************************)
(* compute_heuristic (lines 340-420), called on instance e for state s.    *)
(***************************************************************************)
\* lines 360-395: the Oracle's score of the state as an int; a raised
\* exception is caught and gives 0
AnticipatoryCostInt(fn, var_names, fact_names, state) ==
  LET res == PyCall(fn, Snapshot(var_names, fact_names, state))
  IN IF res.kind = "fault" THEN 0 ELSE NormalizeScore(res)

\* the states of the newest two calls
LastCalls(calls) ==
  IF Len(calls) <= 2 THEN calls ELSE SubSeq(calls, Len(calls) - 1, Len(calls))

\* the probe's record when no probe ran
NoProbe ==
  [budget |-> 0, explored |-> {}, preferred |-> {}, threw |-> FALSE,
   scored |-> << >>, expanded |-> << >>, ub_cast |-> FALSE, tied |-> FALSE,
   calls |-> << >>, oracle_held |-> << >>, gil |-> 0]

\* the score's record when the Oracle was not asked about the state
NoScore == [kind |-> "none"]

\* the holds of the interpreter lock at each call of py_cost_fn a call of
\* compute_heuristic made: the one of line 373, then the probe's
OracleHeld(score, probe) ==
  IF score.kind = "none" THEN << >>
  ELSE << HeldAtOracle(gil_held, g_py_tables_ready) >> \o probe.oracle_held

\* what the caller sees of a call on e for s: the outcome, the Oracle's raw
\* answer for s (score), what the probe did, the holds of the interpreter
\* lock and whether the call found the cache empty
Returned(e, s, value, hit, score, probed, probe) ==
  [op |-> "eval", evaluator |-> e, state |-> s, outcome |-> "value",
   value |-> value, hit |-> hit, score |-> score, cache_enabled |-> g_use_cache,
   ready |-> py_ready, probed |-> probed, probe |-> probe,
   preferred |-> probe.preferred,
   gil_entry |-> gil_held, oracle_held |-> OracleHeld(score, probe),
   fresh_cache |-> DOMAIN g_cache = {}]

Threw(e, s, why, score, probed, probe) ==
  [op |-> "eval", evaluator |-> e, state |-> s, outcome |-> "throw",
   why |-> why, hit |-> FALSE, score |-> score, cache_enabled |-> g_use_cache,
   ready |-> py_ready, probed |-> probed, probe |-> probe,
   preferred |-> probe.preferred,
   gil_entry |-> gil_held, oracle_held |-> OracleHeld(score, probe),
   fresh_cache |-> DOMAIN g_cache = {}]

\* lines 413-419: the value is stored, after the eviction, and returned
StoreAndReturn(e, s, key, cost, score, probed, probe) ==
  /\ g_cache' = IF g_use_cache
                THEN CachePut(maybe_evict_cache(g_use_cache,
                                g_cache_max_entries, g_cache), key, cost)
                ELSE g_cache
  /\ result' = Returned(e, s, cost, FALSE, score, probed, probe)

\* lines 408-419 when should_explore_now() holds, given what the probe did;
\* an exception of evaluate_state_with_nn leaves compute_heuristic
AfterExplore(e, s, key, cost, score, probe) ==
  /\ exploration_count' = exploration_count + 1
  /\ explored_states' = probe.explored
  /\ gil_held' = probe.gil
  /\ IF probe.threw
     THEN /\ g_cache' = g_cache
          /\ result' = Threw(e, s, "oracle_fault", score, TRUE, probe)
     ELSE StoreAndReturn(e, s, key, cost, score, TRUE, probe)

\* explore_from_state for s when the build resolves an out-of-range cast
\* to ub and a tie of the sort as tie
Probe(e, s, ctx, cost, ub, tie) ==
  explore_from_state([ctx EXCEPT !.ub = ub, !.tie = tie], explored_states,
                     s, cost, e.exploration_depth, e.exploration_budget)

\* lines 408-411 with every outcome the build can produce.  p0 is the probe
\* with the cast giving 0 and ties kept in operator order; another choice
\* is a different run only where the run it departs from met such a cast
\* or such a tie.
Explore(e, s, key, ctx, cost, score, p0) ==
  \E ub \in UBCastResults, tie \in TieOrders :
    /\ (ub # 0 \/ tie # "first") => (p0.ub_cast \/ p0.tied)
    /\ ub # 0 => Probe(e, s, ctx, cost, 0, tie).ub_cast
    /\ tie # "first" => Probe(e, s, ctx, cost, ub, "first").tied
    /\ AfterExplore(e, s, key, cost, score,
         IF ub = 0 /\ tie = "first" THEN p0
         ELSE Probe(e, s, ctx, cost, ub, tie))

\* lines 408-419, given the Oracle's answer (score) and the int made of it
AfterOracle(e, s, key, ctx, score, cost) ==
  IF should_explore_now(evaluation_count + 1, e.exploration_frequency)
  THEN Explore(e, s, key, ctx, cost, score,
               Probe(e, s, ctx, cost, 0, "first"))
  ELSE /\ UNCHANGED << exploration_count, explored_states >>
       /\ gil_held' = ctx.held
       /\ StoreAndReturn(e, s, key, cost, score, FALSE, NoProbe)

\* lines 360-419, with the string tables as ensure_py_tables_ready leaves them
Miss(e, s, key, ctx) ==
  /\ g_py_tables_ready' = TRUE
  /\ g_py_var_names' = ctx.var_names
  /\ g_py_fact_names' = ctx.fact_names
  /\ AfterOracle(e, s, key, ctx,
       PyCall(py_cost_fn, Snapshot(ctx.var_names, ctx.fact_names, s)),
       AnticipatoryCostInt(py_cost_fn, ctx.var_names, ctx.fact_names, s))

\* what the probe works with: the task, the bound function, the tables, the
\* threshold, and how the build resolves an out-of-range cast and a tie
Context(e) ==
  [task |-> e.task, fn |-> py_cost_fn,
   var_names |-> IF g_py_tables_ready THEN g_py_var_names
                 ELSE BuildVarNames(e.task),
   fact_names |-> IF g_py_tables_ready THEN g_py_fact_names
                  ELSE BuildFactNames(e.task),
   thr |-> e.improvement_threshold, ub |-> 0, tie |-> "first",
   held |-> HeldAfterTry(gil_held, g_py_tables_ready)]

HitRecomputes(e, s, key) ==
  /\ g_cache_hits' = g_cache_hits + 1
  /\ g_cache_misses' = g_cache_misses
  /\ Miss(e, s, key, Context(e))

\* lines 348-352: a hit returns the stored value
Hit(e, s, key) ==
  /\ g_cache_hits' = g_cache_hits + 1
  /\ result' = Returned(e, s, g_cache[key], TRUE, NoScore, FALSE, NoProbe)
  /\ UNCHANGED << g_cache_misses, g_cache, exploration_count,
                  explored_states, g_py_tables_ready,
                  g_py_var_names, g_py_fact_names, gil_held >>

\* lines 340-420
compute_heuristic(e, s) ==
  /\ g_calls' = g_calls + 1
  /\ evaluation_count' = evaluation_count + 1
  /\ trail' = LastCalls(Append(trail, s))
  /\ IF g_use_cache /\ StateHash[s] \in DOMAIN g_cache
     THEN Hit(e, s, StateHash[s])
     ELSE /\ g_cache_misses' = IF g_use_cache THEN g_cache_misses + 1
                               ELSE g_cache_misses
          /\ g_cache_hits' = g_cache_hits
          /\ IF ~py_ready
             THEN \* lines 356-358
                  /\ result' = Threw(e, s, "not_ready", NoScore, FALSE, NoProbe)
                  /\ UNCHANGED << g_cache, exploration_count,
                                  explored_states, g_py_tables_ready,
                                  g_py_var_names, g_py_fact_names, gil_held >>
             ELSE Miss(e, s, StateHash[s], Context(e))
  /\ UNCHANGED << py_cost_fn, py_ready, py_func_name, py_module_name,
                  g_use_cache, g_cache_max_entries, evaluators, constructions >>

\* a call of compute_heuristic, while the run has calls left
ComputeHeuristic(e, s) ==
  /\ evaluation_count < MaxEvals
  /\ compute_heuristic(e, s)

Next ==
  \/ \E cfg \in Configs : Construct(cfg)
  \/ \E e \in evaluators, s \in States : ComputeHeuristic(e, s)

Spec == Init /\ [][Next]_vars

(***************************************************************************)
(* Runs that reach several probes: one evaluator, built with the cache     *)
(* disabled over a range of exploration depths and budgets; between two    *)
(* triggering evaluations the search evaluates the state <<0, 0>>.         *)
(***************************************************************************)
MaxProbeEvals == 10

ProbeDepths == {-1, 0, 1, 2, 3}
ProbeBudgets == {-1, 0, 1, 5, 20}

ProbeConfigs ==
  {Config("anticipatory_cost_fn", task, FALSE, 2, depth, budget) :
     task \in Tasks, depth \in ProbeDepths, budget \in ProbeBudgets}

ProbeConstruct(cfg) == constructions = 0 /\ Construct(cfg)

ProbeEvaluate(e, s) ==
  /\ evaluation_count < MaxProbeEvals
  /\ should_explore_now(evaluation_count + 1, e.exploration_frequency)
       \/ s = <<0, 0>>
  /\ compute_heuristic(e, s)

ProbeNext ==
  \/ \E cfg \in ProbeConfigs : ProbeConstruct(cfg)
  \/ \E e \in evaluators, s \in States : ProbeEvaluate(e, s)

ProbeSpec == Init /\ [][ProbeNext]_vars

(***************************************************************************)
(* Long runs of one evaluator, through the three phases of the probe's     *)
(* schedule: the cache is disabled and the search evaluates <<0, 0>>.      *)
(***************************************************************************)
MaxScheduleEvals == 540

Frequencies == {1, 3, 5, 7, 10}

ScheduleConfigs ==
  {[Config("anticipatory_cost_fn", 1, FALSE, 2, 2, 20)
      EXCEPT !.exploration_frequency = frequency] : frequency \in Frequencies}

ScheduleConstruct(cfg) == constructions = 0 /\ Construct(cfg)

ScheduleEvaluate(e) ==
  /\ evaluation_count < MaxScheduleEvals
  /\ compute_heuristic(e, <<0, 0>>)

ScheduleNext ==
  \/ \E cfg \in ScheduleConfigs : ScheduleConstruct(cfg)
  \/ \E e \in evaluators : ScheduleEvaluate(e)

ScheduleSpec == Init /\ [][ScheduleNext]_vars

(***************************************************************************)
(* Delete-relaxed reachability of the goal, as the Reachability Engine     *)
(* the evaluator derives from computes it, and the sentinel it reports.    *)
(***************************************************************************)
DEAD_END == -1

\* the facts <<var_id, value>> true in a state
StateFacts(state) == {<<i - 1, state[i]>> : i \in 1..Len(state)}

\* the facts some sequence of relaxed operator applications reaches
RECURSIVE RelaxedFacts(_, _)
RelaxedFacts(task, facts) ==
  IF \A o \in OpIds(task) :
       Operators(task)[o].pre \subseteq facts
         => Operators(task)[o].eff \subseteq facts
  THEN facts
  ELSE RelaxedFacts(task,
         facts \cup UNION {Operators(task)[o].eff :
                             o \in {q \in OpIds(task) :
                                      Operators(task)[q].pre \subseteq facts}})

\* the states of a task from which some goal proposition is unreachable
\* under delete relaxation
RelaxedDeadEnds ==
  [task \in Tasks |->
     {s \in States : ~(Goal(task) \subseteq RelaxedFacts(task, StateFacts(s)))}]

(***************************************************************************)
(* Relaxed-plan extraction (lines 212-238).  The exploration that labels   *)
(* the propositions belongs to the Reachability Engine: with unit costs a  *)
(* proposition's cost is the first layer of relaxed reachability holding   *)
(* it, and its reached_by is an operator that achieves it at that cost,    *)
(* NO_OP for a proposition of the state and for an unreached one.  A       *)
(* proposition is a fact <<var_id, value>>; the unary operator of operator *)
(* o for one of its effects is named by o, its operator_no.                *)
(***************************************************************************)
NO_OP == -1

Props == {<<v, d>> : v \in 0..1, d \in 0..1}

PropId(f) == 2 * f[1] + f[2]

\* the facts reached by at most k layers of relaxed operator applications
RECURSIVE ReachedWithin(_, _, _)
ReachedWithin(task, facts, k) ==
  IF k = 0 THEN facts
  ELSE ReachedWithin(task,
         facts \cup UNION {Operators(task)[o].eff :
                             o \in {q \in OpIds(task) :
                                      Operators(task)[q].pre \subseteq facts}},
         k - 1)

\* Proposition::cost after the exploration from a state, -1 when unreached
PropCost(task, state, p) ==
  IF p \notin ReachedWithin(task, StateFacts(state), Cardinality(Props))
  THEN -1
  ELSE CHOOSE k \in 0..Cardinality(Props) :
         /\ p \in ReachedWithin(task, StateFacts(state), k)
         /\ \A j \in 0..(k - 1) : p \notin ReachedWithin(task, StateFacts(state), j)

\* the operators that achieve p at its cost
Achievers(task, state, p) ==
  IF PropCost(task, state, p) <= 0 THEN {NO_OP}
  ELSE {o \in OpIds(task) :
          /\ p \in Operators(task)[o].eff
          /\ Operators(task)[o].pre
               \subseteq ReachedWithin(task, StateFacts(state),
                                       PropCost(task, state, p) - 1)}

\* every labelling Proposition::reached_by the exploration can leave
ReachedBy(task, state) ==
  {[p \in Props |-> <<<<a0, a1>>, <<b0, b1>>>>[p[1] + 1][p[2] + 1]] :
     a0 \in Achievers(task, state, <<0, 0>>),
     a1 \in Achievers(task, state, <<0, 1>>),
     b0 \in Achievers(task, state, <<1, 0>>),
     b1 \in Achievers(task, state, <<1, 1>>)}

\* get_preconditions(op_id), in PropID order
RECURSIVE InPropIdOrder(_)
InPropIdOrder(props) ==
  IF props = {} THEN << >>
  ELSE LET first == CHOOSE f \in props :
                      \A g \in props : PropId(f) <= PropId(g)
       IN << first >> \o InPropIdOrder(props \ {first})

get_preconditions(task, op_id) == InPropIdOrder(Operators(task)[op_id].pre)

AlwaysPreferred(ex, op_id) == TRUE

\* lines 219-226: is_preferred once the loop over the preconditions is over
IsPreferred(ex, op_id) ==
  \A precond \in Operators(ex.task)[op_id].pre : ex.reached_by[precond] = NO_OP

\* lines 227-235.  ms holds marked (Proposition::marked), relaxed_plan (the
\* operators whose entry is true), preferred (set_preferred calls)
\* and assert_failed (the assertion of line 232 met an inapplicable one).
MarkOperator(ex, ms, op_id, is_preferred) ==
  [ms EXCEPT
     !.relaxed_plan = @ \cup {op_id},
     !.preferred = IF is_preferred THEN @ \cup {op_id} ELSE @,
     !.assert_failed =
       @ \/ (is_preferred /\ ~is_applicable(ex.task, op_id, ex.state))]

RECURSIVE mark_preferred_operators_and_relaxed_plan(_, _, _)
RECURSIVE MarkPreconditions(_, _, _, _)

\* lines 220-225: the recursion into the preconditions, from index i on
MarkPreconditions(ex, ms, preconds, i) ==
  IF i > Len(preconds) THEN ms
  ELSE MarkPreconditions(ex,
         mark_preferred_operators_and_relaxed_plan(ex, ms, preconds[i]),
         preconds, i + 1)

\* lines 212-238, for the exploration ex (task, state, reached_by)
mark_preferred_operators_and_relaxed_plan(ex, ms, goal_id) ==
  IF goal_id \in ms.marked THEN ms
  ELSE IF ex.reached_by[goal_id] = NO_OP
  THEN [ms EXCEPT !.marked = @ \cup {goal_id}]
  ELSE MarkOperator(ex,
         MarkPreconditions(ex, [ms EXCEPT !.marked = @ \cup {goal_id}],
           get_preconditions(ex.task, ex.reached_by[goal_id]), 1),
         ex.reached_by[goal_id],
         IsPreferred(ex, ex.reached_by[goal_id]))

PlanConfigs ==
  {Config("anticipatory_cost_fn", task, FALSE, 2, 2, 20) : task \in Tasks}

PlanConstruct(cfg) == constructions = 0 /\ Construct(cfg)

\* the first evaluation of an instance, of state s, begins: the exploration
\* has labelled the propositions, no proposition is marked, no operator is
\* preferred and relaxed_plan is as the constructor filled it (line 125);
\* goals are the propositions the caller is about to hand to the extraction
StartExtraction(e, s, goals, rb) ==
  /\ result.op = "construct"
  /\ result' = [op |-> "plan", evaluator |-> e, state |-> s, goals |-> goals,
                pending |-> goals, reached_by |-> rb, marked |-> {},
                relaxed_plan |-> {}, preferred |-> {},
                assert_failed |-> FALSE]
  /\ UNCHANGED << py_cost_fn, py_ready, py_func_name, py_module_name,
                  evaluation_count, exploration_count, explored_states,
                  g_py_tables_ready, g_py_var_names, g_py_fact_names,
                  g_use_cache, g_cache_max_entries, g_cache, g_calls,
                  g_cache_hits, g_cache_misses, evaluators, constructions,
                  gil_held, trail >>

\* the extraction's record after the call for goal_id
Extracted(ms, goal_id) ==
  [result EXCEPT !.pending = @ \ {goal_id},
                 !.marked = ms.marked,
                 !.relaxed_plan = ms.relaxed_plan,
                 !.preferred = ms.preferred,
                 !.assert_failed = ms.assert_failed]

\* mark_preferred_operators_and_relaxed_plan(state, goal_id) is called
MarkGoal(goal_id) ==
  /\ result.op = "plan"
  /\ goal_id \in result.pending
  /\ result' = Extracted(
       mark_preferred_operators_and_relaxed_plan(
         [task |-> result.evaluator.task, state |-> result.state,
          reached_by |-> result.reached_by],
         [marked |-> result.marked, relaxed_plan |-> result.relaxed_plan,
          preferred |-> result.preferred,
          assert_failed |-> result.assert_failed],
         goal_id),
       goal_id)
  /\ UNCHANGED << py_cost_fn, py_ready, py_func_name, py_module_name,
                  evaluation_count, exploration_count, explored_states,
                  g_py_tables_ready, g_py_var_names, g_py_fact_names,
                  g_use_cache, g_cache_max_entries, g_cache, g_calls,
                  g_cache_hits, g_cache_misses, evaluators, constructions,
                  gil_held, trail >>

PlanNext ==
  \/ \E cfg \in PlanConfigs : PlanConstruct(cfg)
  \/ \E e \in evaluators, s \in States :
       \E rb \in ReachedBy(e.task, s), goals \in SUBSET Props :
         StartExtraction(e, s, goals, rb)
  \/ \E goal_id \in Props : MarkGoal(goal_id)

PlanSpec == Init /\ [][PlanNext]_vars

(***************************************************************************)
(* Properties.  A property speaks of the last call (result) and of the     *)
(* state it left.                                                          *)
(***************************************************************************)
Evaluated == result.op = "eval"
ReturnedValue == result.op = "eval" /\ result.outcome = "value"

\* what compute_heuristic gives for a state when nothing is reused: the
\* bound function's score of the state's snapshot, normalized
FreshValue(state) ==
  AnticipatoryCostInt(py_cost_fn, g_py_var_names, g_py_fact_names, state)

\* C1: cache transparency.  A value returned with the cache enabled is the
\* value the call computes for that state with the cache disabled, whatever
\* evaluations and constructions came before.
C1_CacheTransparency ==
  (ReturnedValue /\ result.cache_enabled)
    => result.value = FreshValue(result.state)

\* C2: cache bound.  After every completed evaluation the cache holds at
\* most cache_max_entries entries.
C2_CacheBound ==
  (ReturnedValue /\ g_use_cache)
    => Cardinality(DOMAIN g_cache) <= g_cache_max_entries

\* C3: eviction forgets.  With capacity 1, after evaluate(s1), evaluate(s2)
\* with s1 # s2, the next evaluation of s1 is a miss.
C3_EvictionForgets ==
  [][(/\ g_use_cache /\ py_ready /\ g_cache_max_entries = 1
      /\ Len(trail) = 2 /\ trail[1] # trail[2]
      /\ result'.op = "eval" /\ result'.state = trail[1])
       => ~result'.hit]_vars

\* C4: not ready refuses.  A call made while py_ready is false returns no
\* estimate, cached state or not; it fails.
C4_NotReadyRefuses ==
  (Evaluated /\ ~result.ready) => result.outcome = "throw"

\* C5: Oracle faults never escape.  When the Oracle faults on the evaluated
\* state or on a successor the probe scores, the call still returns a value,
\* the fallback 0 when the fault was on the evaluated state.
C5_FaultsNeverEscape ==
  (Evaluated /\ (result.score.kind = "fault" \/ result.probe.threw))
    => /\ result.outcome = "value"
       /\ result.score.kind = "fault" => result.value = 0

\* C6: every action marked preferred during the evaluation of a state is
\* applicable in that state.
C6_PreferredApplicable ==
  Evaluated
    => \A op \in result.preferred :
         is_applicable(result.evaluator.task, op, result.state)

\* C7: dead-end correctness.  An evaluation of a state from which the goal
\* is unreachable under delete relaxation returns the DEAD-END sentinel.
C7_DeadEndCorrectness ==
  (ReturnedValue /\ result.state \in RelaxedDeadEnds[result.evaluator.task])
    => result.value = DEAD_END

\* the Oracle's score is a number below zero
NegativeScore(score) ==
  score.kind = "num"
    /\ (score.wraps < 0 \/ (score.wraps = 0 /\ score.twice < 0))

C9_OracleOnly ==
  (ReturnedValue /\ result.ready)
    => /\ result.value =
            AnticipatoryCostInt(py_cost_fn,
              BuildVarNames(result.evaluator.task),
              BuildFactNames(result.evaluator.task), result.state)
       /\ py_cost_fn = "const_five" => result.value = 5

\* C10: the probe never influences the outcome.  An evaluation on which the
\* probe ran returns, and stores, what it does when the probe does not run.
C10_ProbeFrame ==
  (Evaluated /\ result.probed)
    => /\ result.outcome = "value"
       /\ result.value = FreshValue(result.state)
       /\ g_use_cache
            => /\ StateHash[result.state] \in DOMAIN g_cache
               /\ g_cache[StateHash[result.state]] = result.value

Max(a, b) == IF a > b THEN a ELSE b

\* the last call was an evaluation on which the probe ran
Probed == result.op = "eval" /\ result.probed

\* how many calls of probe_successors lie between the probe's first call
\* and the call that was given `depth`
Level(depth) == result.evaluator.exploration_depth - depth

\* C11: probe budget.  Within one probe the successors scored, over all
\* recursion levels, are at most exploration_budget (none for a budget
\* below 0), no call lies deeper than exploration_depth and every call
\* that expands its state lies above it.
C11_ProbeBudget ==
  Probed
    => /\ Len(result.probe.scored)
            <= Max(0, result.evaluator.exploration_budget)
       /\ \A i \in DOMAIN result.probe.calls :
            /\ Level(result.probe.calls[i].depth)
                 <= Max(0, result.evaluator.exploration_depth)
            /\ result.probe.calls[i].did = "expand"
                 => Level(result.probe.calls[i].depth)
                      < result.evaluator.exploration_depth

\* the bounds of C11 do hold in every configuration whose exploration_depth
\* is not below 0
ProbeBudgetForNonNegativeDepth ==
  (Probed /\ result.evaluator.exploration_depth >= 0) => C11_ProbeBudget

\* C12: every call of py_cost_fn that a call of compute_heuristic makes
\* (line 373, and line 262 for the probe) happens with the interpreter lock
\* held, and when the call is over, by a return or by an exception, the
\* thread holds the lock as many times as when the call began
C12_OracleExclusivity ==
  result.op = "eval"
    => /\ \A i \in DOMAIN result.oracle_held : result.oracle_held[i] >= 1
       /\ gil_held = result.gil_entry

\* a call that asked the Oracle under its own guard, then twice under the
\* probe's two nested guards, and was ended by the Oracle's exception
C12_Witness ==
  /\ result.op = "eval"
  /\ result.outcome = "throw"
  /\ result.probed
  /\ result.oracle_held = <<1, 2, 2>>

\* C13: plan extraction prefers exactly the operators that achieve a marked
\* proposition and whose preconditions all have no achiever; every operator
\* it prefers is applicable in the evaluated state; and for set_A, set_B
\* with goal B=1 from A=0, B=0 it puts both in the relaxed plan and prefers
\* set_A alone
C13_PlanExtraction ==
  result.op = "plan"
    => /\ result.preferred =
            {o \in OpIds(result.evaluator.task) :
               \E p \in result.marked :
                 /\ result.reached_by[p] = o
                 /\ \A q \in Operators(result.evaluator.task)[o].pre :
                      result.reached_by[q] = NO_OP}
       /\ \A o \in result.preferred :
            is_applicable(result.evaluator.task, o, result.state)
       /\ ~result.assert_failed
       /\ (/\ result.evaluator.task = 1
           /\ result.state = <<0, 0>>
           /\ result.goals = {<<1, 1>>}
           /\ result.pending = {})
            => /\ result.relaxed_plan = {1, 2}
               /\ result.preferred = {1}

\* the two-action scenario, extracted
C13_Witness ==
  /\ result.op = "plan"
  /\ result.evaluator.task = 1
  /\ result.state = <<0, 0>>
  /\ result.goals = {<<1, 1>>}
  /\ result.pending = {}
  /\ result.marked = {<<1, 1>>, <<0, 1>>, <<0, 0>>}
  /\ result.preferred = {1}

\* two calls in a row on the same instance for the same state, each finding
\* the cache empty
SameStateTwice ==
  /\ result.op = "eval"
  /\ result'.op = "eval"
  /\ result.fresh_cache
  /\ result'.fresh_cache
  /\ result'.state = result.state
  /\ result'.evaluator = result.evaluator

\* C14: when the same state is evaluated twice, each time from an empty
\* cache, the second call ends as the first did: both return the same
\* value or both throw
C14_Idempotence ==
  [][SameStateTwice
       => /\ result'.outcome = result.outcome
          /\ result.outcome = "value" => result'.value = result.value]_vars

\* two such calls that both return, return the same value
IdempotentWhenBothReturn ==
  [][(SameStateTwice /\ result.outcome = "value" /\ result'.outcome = "value")
       => result'.value = result.value]_vars

\* the last evaluation count below n at which should_explore_now held, 0 if
\* there is none
PrevTrigger(n, frequency) ==
  IF \E m \in 1..(n - 1) : should_explore_now(m, frequency)
  THEN CHOOSE m \in 1..(n - 1) :
         /\ should_explore_now(m, frequency)
         /\ \A k \in (m + 1)..(n - 1) : ~should_explore_now(k, frequency)
  ELSE 0

\* the evaluation that just ended ran the probe, and so did two before it
ThirdTrigger ==
  /\ result.op = "eval"
  /\ result.probed
  /\ PrevTrigger(PrevTrigger(evaluation_count,
                             result.evaluator.exploration_frequency),
                 result.evaluator.exploration_frequency) > 0

\* the evaluations between the probe that just ran and the one before it,
\* the latter included
LastGap ==
  evaluation_count
    - PrevTrigger(evaluation_count, result.evaluator.exploration_frequency)

\* the same between the two probes before
GapBefore ==
  PrevTrigger(evaluation_count, result.evaluator.exploration_frequency)
    - PrevTrigger(PrevTrigger(evaluation_count,
                              result.evaluator.exploration_frequency),
                  result.evaluator.exploration_frequency)

\* C15: the probe does not run on two evaluations in a row, and the gap
\* between two probes is never shorter than the gap before it
C15_TriggerSchedule ==
  ThirdTrigger => (LastGap > 1 /\ LastGap >= GapBefore)

\* the schedule of C15 is kept by the frequencies that are multiples of 5
ScheduleForMultiplesOfFive ==
  (ThirdTrigger /\ result.evaluator.exploration_frequency % 5 = 0)
    => (LastGap > 1 /\ LastGap >= GapBefore)

\* the call i of the probe that just ran got past the depth and budget
\* check of line 267
ReachedVisitedCheck(i) == result.probe.calls[i].did \in {"skip", "expand"}

\* an earlier call of the same probe expanded the state of call i
VisitedEarlierInSession(i) ==
  \E j \in 1..(i - 1) :
    /\ result.probe.calls[j].did = "expand"
    /\ result.probe.calls[j].state = result.probe.calls[i].state

\* C16: a call of probe_successors skips its state exactly when an earlier
\* call of the same probe expanded that state
C16_VisitedSetScoping ==
  Probed
    => \A i \in DOMAIN result.probe.calls :
         ReachedVisitedCheck(i)
           => (result.probe.calls[i].did = "skip" <=> VisitedEarlierInSession(i))

\* within one probe no state is expanded twice
NoStateExpandedTwice ==
  Probed
    => \A i \in DOMAIN result.probe.calls :
         result.probe.calls[i].did = "expand" => ~VisitedEarlierInSession(i)

\* the calls of the probe that just ran, in call order
Calls == result.probe.calls

\* the call that made call k: the last one before k, one level up, that
\* got to its recursion
Parent(k) ==
  CHOOSE j \in 1..(k - 1) :
    /\ Calls[j].depth = Calls[k].depth + 1
    /\ Calls[j].reached_sort
    /\ \A m \in (j + 1)..(k - 1) :
         ~(Calls[m].depth = Calls[k].depth + 1 /\ Calls[m].reached_sort)

\* the retained candidates of call i are those the Oracle scores below
\* current_cost x improvement_threshold, in ascending order of score
RetainedImproveInOrder(i) ==
  /\ \A c \in 1..Len(Calls[i].retained) :
       /\ Calls[i].retained[c].cost =
            PyCall(py_cost_fn,
                   Snapshot(g_py_var_names, g_py_fact_names,
                            get_unregistered_successor(
                              result.evaluator.task,
                              Calls[i].retained[c].op, Calls[i].state)))
       /\ ScoreImproves(Calls[i].retained[c].cost, Calls[i].cost,
                        result.evaluator.improvement_threshold)
  /\ \A c, d \in 1..Len(Calls[i].retained) :
       c < d => ~ScoreLess(Calls[i].retained[d].cost, Calls[i].retained[c].cost)

\* call i marks the first three of its retained candidates, or all of them
MarksLowestThree(i) ==
  /\ Cardinality(Calls[i].marked) <= 3
  /\ Calls[i].marked =
       {Calls[i].retained[c].op :
          c \in {d \in 1..Len(Calls[i].retained) : d <= 3}}
  /\ Calls[i].marked \subseteq result.preferred

\* call k > 1 is made by its parent for one of the parent's first two
\* candidates, on that candidate's successor, with its score cast to int
\* (any int the build gives when the score does not fit), one level
\* further down, and with the budget as the call before it left it
RecursionOfLowestTwo(k) ==
  /\ \E j \in 1..(k - 1) :
       Calls[j].depth = Calls[k].depth + 1 /\ Calls[j].reached_sort
  /\ \E c \in {d \in 1..Len(Calls[Parent(k)].retained) : d <= 2} :
       /\ Calls[k].state =
            get_unregistered_successor(result.evaluator.task,
              Calls[Parent(k)].retained[c].op, Calls[Parent(k)].state)
       /\ Calls[k].cost \in
            (IF FitsInt(Calls[Parent(k)].retained[c].cost)
             THEN {TruncToInt(Calls[Parent(k)].retained[c].cost)}
             ELSE UBCastResults)
  /\ Cardinality({m \in 2..Len(Calls) :
                    /\ Calls[m].depth = Calls[k].depth
                    /\ Parent(m) = Parent(k)}) <= 2
  /\ Calls[k].budget = Calls[k - 1].left

C18_ProbeTermination ==
  Probed
    => /\ Len(result.probe.scored) <= Max(0, result.evaluator.exploration_budget)
       /\ Len(Calls) <= 1 + 2 * Len(result.probe.scored)
       /\ Calls[1].depth = result.evaluator.exploration_depth
       /\ Calls[1].budget = result.evaluator.exploration_budget
       /\ \A k \in 2..Len(Calls) :
            /\ Calls[k].depth = Calls[Parent(k)].depth - 1
            /\ Calls[k].budget >= 1
            /\ Calls[k].budget < Calls[Parent(k)].budget

\* a probe configured with a negative depth that recursed, and ended
C18_Witness ==
  /\ Probed
  /\ result.evaluator.exploration_depth < 0
  /\ Len(Calls) >= 3
  /\ Calls[Len(Calls)].depth < Calls[1].depth

\* the last call handed the Oracle a snapshot of the evaluated state
AskedOracle == Evaluated /\ result.score.kind # "none"

\* the snapshot compute_heuristic handed the Oracle (lines 366-373)
PassedSnapshot ==
  Snapshot(g_py_var_names, g_py_fact_names, result.state)

\* C19: the snapshot handed to the Oracle has exactly one entry for each
\* variable of the evaluator's task, from the variable's name to the name
\* of the fact the variable holds in the evaluated state, and the string
\* tables in use are those of the evaluator's task
C19_SnapshotCorrectness ==
  AskedOracle
    => /\ DOMAIN PassedSnapshot =
            {VarName(result.evaluator.task, var_id) :
               var_id \in 0..(NumVars(result.evaluator.task) - 1)}
       /\ \A var_id \in 0..(NumVars(result.evaluator.task) - 1) :
            PassedSnapshot[VarName(result.evaluator.task, var_id)] =
              FactName(result.evaluator.task, var_id,
                       result.state[var_id + 1])
       /\ g_py_var_names = BuildVarNames(result.evaluator.task)
       /\ g_py_fact_names = BuildFactNames(result.evaluator.task)

\* the string tables are built once: those in use are the ones of the
\* first task an evaluator was constructed for
TablesBuiltOnce ==
  [][g_py_tables_ready
       => /\ g_py_tables_ready'
          /\ g_py_var_names' = g_py_var_names
          /\ g_py_fact_names' = g_py_fact_names]_vars

\* a call of compute_heuristic, with the cache enabled, for a state whose
\* fingerprint is in the cache
HitStep ==
  /\ g_calls' = g_calls + 1
  /\ result'.op = "eval"
  /\ g_use_cache
  /\ StateHash[result'.state] \in DOMAIN g_cache

\* C20: a call that finds the state's fingerprint in the cache returns the
\* stored value; it does not ask the Oracle, run the probe or mark an
\* operator preferred, and of the program's state it changes the call, hit
\* and evaluation counters and nothing else
C20_CacheHitFrame ==
  [][HitStep
       => /\ result'.outcome = "value"
          /\ result'.hit
          /\ result'.value = g_cache[StateHash[result'.state]]
          /\ result'.score = NoScore
          /\ result'.oracle_held = << >>
          /\ ~result'.probed
          /\ result'.probe = NoProbe
          /\ result'.preferred = {}
          /\ g_calls' = g_calls + 1
          /\ g_cache_hits' = g_cache_hits + 1
          /\ evaluation_count' = evaluation_count + 1
          /\ UNCHANGED << g_cache, explored_states, exploration_count,
                          g_cache_misses, g_use_cache, g_cache_max_entries,
                          g_py_tables_ready, g_py_var_names, g_py_fact_names,
                          py_cost_fn, py_ready, py_func_name, py_module_name,
                          gil_held, evaluators, constructions >>]_vars

\* a call that was a hit on a triggering evaluation count, where a miss
\* would have run the probe
C20_Witness ==
  /\ Evaluated
  /\ result.hit
  /\ result.cache_enabled
  /\ should_explore_now(evaluation_count,
                        result.evaluator.exploration_frequency)
  /\ g_cache_hits >= 1
  /\ result.value = g_cache[StateHash[result.state]]

====
